---- MODULE Spec2Model ----
(***************************************************************************)
(* Model of the unit-enum derive macro (src/src/lib.rs).                   *)
(*                                                                         *)
(* The macro receives one enum declaration (the DeriveInput), classifies   *)
(* its variants (validate_and_process), resolves one discriminant          *)
(* expression per unit variant (compute_discriminants) and emits the       *)
(* methods name/ordinal/from_ordinal/discriminant/from_discriminant/len/   *)
(* values (impl_unit_enum).  The state machine below is: the declaration   *)
(* handed to the macro, the macro run, and then calls of the emitted       *)
(* methods.                                                                *)
(*                                                                         *)
(* A discriminant expression is kept as the token sequence syn holds for   *)
(* it; `#expr + 1` appends two tokens and the result is parsed again with  *)
(* Rust's operator precedence, exactly as parse_quote! does.               *)
(***************************************************************************)
EXTENDS Naturals, Sequences, FiniteSets

VARIABLES ast, pc, discriminant_type, unit_variants, other_variant, error,
          discriminants, call, iters

vars == <<ast, pc, discriminant_type, unit_variants, other_variant, error,
          discriminants, call, iters>>

(***************************************************************************)
(* Bounds of the model.                                                    *)
(***************************************************************************)
\* Longest enum declaration handed to the macro.
MaxVariants == 3
\* Largest value of the (bounded) underlying integer type.
MaxDiscr == 12

(***************************************************************************)
(* Tokens and expressions.                                                 *)
(***************************************************************************)
Lit(n) == [k |-> "lit", n |-> n]
Op(o) == [k |-> o, n |-> 0]

\* Rust binary operator precedence: `+` binds tighter than `<<`, which binds
\* tighter than `|`.
Prec(o) == CASE o = "|" -> 1 [] o = "<<" -> 2 [] o = "+" -> 3

RECURSIVE Pow2(_)
Pow2(n) == IF n = 0 THEN 1 ELSE 2 * Pow2(n - 1)

RECURSIVE BitOr(_, _)
BitOr(a, b) ==
    IF a = 0 THEN b
    ELSE IF b = 0 THEN a
    ELSE (IF a % 2 = 1 \/ b % 2 = 1 THEN 1 ELSE 0) + 2 * BitOr(a \div 2, b \div 2)

Apply(o, a, b) ==
    CASE o = "+" -> a + b
      [] o = "<<" -> a * Pow2(b)
      [] o = "|" -> BitOr(a, b)

\* Positions of the binary operators of a token sequence.
OpPositions(ts) == {i \in 1..Len(ts) : ts[i].k # "lit"}

\* The operator at the root of the parsed expression: lowest precedence,
\* and, the operators being left-associative, the last of those.
RootOp(ts) ==
    CHOOSE i \in OpPositions(ts) :
        \A j \in OpPositions(ts) :
            \/ Prec(ts[j].k) > Prec(ts[i].k)
            \/ Prec(ts[j].k) = Prec(ts[i].k) /\ j <= i

\* Parse a token sequence as a Rust expression and evaluate it.
RECURSIVE Eval(_)
Eval(ts) ==
    IF Len(ts) = 1 THEN ts[1].n
    ELSE LET i == RootOp(ts)
         IN Apply(ts[i].k, Eval(SubSeq(ts, 1, i - 1)), Eval(SubSeq(ts, i + 1, Len(ts))))

(***************************************************************************)
(* The declaration handed to the macro.                                    *)
(***************************************************************************)
Types == {"i32", "u16"}

\* #[repr(..)] of the enum: absent, a type, or arguments that do not parse
\* as one type (such as `C, u8`).  An absent repr defaults to i32, so the
\* two types are both met as discriminant type.
Reprs == {"none", "invalid", "u16"}

\* Explicit discriminants written in the declaration; <<>> is "none written".
DiscExprs == {<<>>,
              <<Lit(10)>>,
              <<Lit(1), Op("<<"), Lit(1)>>,
              <<Lit(1), Op("|"), Lit(2)>>}

Variant(f, a, t, d) == [fields |-> f, attr |-> a, ty |-> t, discriminant |-> d]

\* fields: "unit", "unnamed1" (one unnamed field), "unnamed2", "named1".
\* attr: "none", "other" (#[unit_enum(other)]), "invalid" (#[unit_enum(x)]).
Variants ==
    {Variant("unit", "none", "-", d) : d \in DiscExprs}
    \cup {Variant("unit", a, "-", <<>>) : a \in {"other", "invalid"}}
    \cup {Variant("unnamed1", a, t, <<>>) : a \in {"none", "other", "invalid"}, t \in Types}
    \cup {Variant("unnamed2", a, "-", <<>>) : a \in {"none", "other"}}
    \cup {Variant("named1", "other", "-", <<>>)}

SeqsUpTo(S, n) == UNION {[1..m -> S] : m \in 0..n}

(***************************************************************************)
(* validate_and_process                                                    *)
(***************************************************************************)
NoError == [at |-> "none", pos |-> 0, msg |-> ""]
ErrVariant(p, m) == [at |-> "variant", pos |-> p, msg |-> m]
ErrAttr(m) == [at |-> "attr", pos |-> 0, msg |-> m]

get_discriminant_type(a) ==
    IF a.repr = "none" THEN [ok |-> TRUE, ty |-> "i32", error |-> NoError]
    ELSE IF a.repr = "invalid"
         THEN [ok |-> FALSE, ty |-> "-", error |-> ErrAttr("Invalid repr attribute")]
         ELSE [ok |-> TRUE, ty |-> a.repr, error |-> NoError]

has_unit_enum_attr(v) == v.attr # "none"

has_unit_enum_other_attr(v) == v.attr = "other"

\* Variation of validate_variant: a later catch-all silently replaces the
\* earlier one instead of being rejected.
validate_variant_last_other_wins(validation, v, p) ==
    IF v.fields = "unit" THEN
        IF v.attr # "none"
        THEN [validation EXCEPT !.error =
                 [at |-> "variant", pos |-> p,
                  msg |-> "Unit variants cannot have #[unit_enum] attributes"]]
        ELSE [validation EXCEPT !.unit_variants = Append(@, p)]
    ELSE IF v.fields = "unnamed1" THEN
        IF v.attr = "other"
        THEN [validation EXCEPT !.other_variant = p]
        ELSE [validation EXCEPT !.error =
                 [at |-> "variant", pos |-> p,
                  msg |-> "Non-unit variant must be marked with #[unit_enum(other)]"]]
    ELSE [validation EXCEPT !.error =
             [at |-> "variant", pos |-> p, msg |-> "Invalid variant"]]

\* One iteration of the loop over the variants: `validation` is the
\* ValidationResult so far (other_variant = 0 is None), p the position of
\* the variant examined.
validate_variant(validation, v, p) ==
    IF v.fields = "unit" THEN
        IF has_unit_enum_attr(v)
        THEN [validation EXCEPT !.error =
                 ErrVariant(p, "Unit variants cannot have #[unit_enum] attributes")]
        ELSE [validation EXCEPT !.unit_variants = Append(@, p)]
    ELSE IF v.fields = "unnamed1" THEN
        IF has_unit_enum_other_attr(v) THEN
            IF validation.other_variant # 0
            THEN [validation EXCEPT !.error =
                     ErrVariant(p, "Multiple #[unit_enum(other)] variants found")]
            ELSE [validation EXCEPT !.other_variant = p]
        ELSE [validation EXCEPT !.error =
                 ErrVariant(p, "Non-unit variant must be marked with #[unit_enum(other)]")]
    ELSE [validation EXCEPT !.error = ErrVariant(p, "Invalid variant")]

RECURSIVE validate_variants(_, _, _)
validate_variants(variants, p, validation) ==
    IF p > Len(variants) THEN validation
    ELSE LET next == validate_variant(validation, variants[p], p)
         IN IF next.error # NoError THEN next
            ELSE validate_variants(variants, p + 1, next)

validate_and_process(a) ==
    LET dt == get_discriminant_type(a)
        empty == [unit_variants |-> <<>>, other_variant |-> 0, error |-> NoError]
    IN IF ~dt.ok
       THEN [discriminant_type |-> "-", unit_variants |-> <<>>, other_variant |-> 0,
             error |-> dt.error]
       ELSE LET validation == validate_variants(a.variants, 1, empty)
            IN IF validation.error # NoError
               THEN [discriminant_type |-> "-", unit_variants |-> <<>>,
                     other_variant |-> 0, error |-> validation.error]
               ELSE [discriminant_type |-> dt.ty,
                     unit_variants |-> validation.unit_variants,
                     other_variant |-> validation.other_variant,
                     error |-> NoError]

(***************************************************************************)
(* compute_discriminants                                                   *)
(***************************************************************************)
\* `variants` are the unit variants themselves, in declaration order.
RECURSIVE compute_discriminants(_)
compute_discriminants(variants) ==
    IF variants = <<>> THEN <<>>
    ELSE LET n == Len(variants)
             before == compute_discriminants(SubSeq(variants, 1, n - 1))
             variant == variants[n]
             discriminant ==
                 IF variant.discriminant # <<>> THEN variant.discriminant
                 ELSE IF before # <<>>
                      THEN before[n - 1] \o <<Op("+"), Lit(1)>>
                      ELSE <<Lit(0)>>
         IN Append(before, discriminant)

(***************************************************************************)
(* The emitted methods.  An instance of the enum is a unit variant (named  *)
(* by its position in the declaration) or the catch-all with its payload;  *)
(* None is Option::None.                                                   *)
(***************************************************************************)
Unit(p) == [tag |-> "unit", pos |-> p, val |-> 0]
Other(p, x) == [tag |-> "other", pos |-> p, val |-> x]
None == [tag |-> "none", pos |-> 0, val |-> 0]

\* impl_unit_enum: the discriminant expressions of the unit variants `units`
\* (positions in declaration `a`).
impl_unit_enum(a, units) ==
    compute_discriminants([k \in 1..Len(units) |-> a.variants[units[k]]])

num_variants == Len(unit_variants)

\* pub fn len() -> usize
len == num_variants

\* Variation of ordinal: the position in the whole declaration, catch-all
\* entry counted.
ordinal_in_declaration(self) ==
    IF self.tag = "unit" THEN self.pos - 1 ELSE Len(unit_variants)

\* pub fn ordinal(&self) -> usize: the unit arms in order, then the other arm.
RECURSIVE ordinal_arms(_, _)
ordinal_arms(self, index) ==
    IF index >= Len(unit_variants) THEN num_variants
    ELSE IF self = Unit(unit_variants[index + 1]) THEN index
    ELSE ordinal_arms(self, index + 1)

ordinal(self) == ordinal_arms(self, 0)

\* Variation of from_ordinal: the arms numbered from one.
from_ordinal_one_based(ord) ==
    IF ord \in 1..Len(unit_variants) THEN [tag |-> "unit", pos |-> unit_variants[ord], val |-> 0]
    ELSE [tag |-> "none", pos |-> 0, val |-> 0]

\* pub fn from_ordinal(ord: usize) -> Option<Self>
from_ordinal(ord) ==
    IF ord \in 0..(Len(unit_variants) - 1) THEN Unit(unit_variants[ord + 1])
    ELSE None

\* Variation of discriminant: explicit discriminants ignored, the unit
\* variants numbered 0, 1, 2, ...
discriminant_implicit(self) ==
    IF self.tag = "unit" THEN ordinal_arms(self, 0) ELSE self.val

\* pub fn discriminant(&self) -> #discriminant_type
RECURSIVE discriminant_arms(_, _)
discriminant_arms(self, k) ==
    IF k > Len(unit_variants) THEN self.val
    ELSE IF self = Unit(unit_variants[k]) THEN Eval(discriminants[k])
    ELSE discriminant_arms(self, k + 1)

discriminant(self) == discriminant_arms(self, 1)

\* Variation of from_discriminant: among the unit variants of equal
\* discriminant the one declared last wins.
from_discriminant_last_match(discr) ==
    LET hits == {k \in 1..Len(unit_variants) : Eval(discriminants[k]) = discr}
    IN IF hits # {}
       THEN [tag |-> "unit",
             pos |-> unit_variants[CHOOSE k \in hits : \A j \in hits : j <= k],
             val |-> 0]
       ELSE IF other_variant # 0
            THEN [tag |-> "other", pos |-> other_variant, val |-> discr]
            ELSE [tag |-> "none", pos |-> 0, val |-> 0]

\* Variation of from_discriminant: the catch-all is built without the
\* unmatched value.
from_discriminant_payload_lost(discr) ==
    LET hits == {k \in 1..Len(unit_variants) : Eval(discriminants[k]) = discr}
    IN IF hits # {}
       THEN [tag |-> "unit",
             pos |-> unit_variants[CHOOSE k \in hits : \A j \in hits : k <= j],
             val |-> 0]
       ELSE IF other_variant # 0
            THEN [tag |-> "other", pos |-> other_variant, val |-> 0]
            ELSE [tag |-> "none", pos |-> 0, val |-> 0]

\* pub fn from_discriminant(discr): the guarded arms `x if x == #discriminant`
\* in order; the last arm is the catch-all, or None when there is none.
RECURSIVE from_discriminant_arms(_, _)
from_discriminant_arms(discr, k) ==
    IF k > Len(unit_variants)
    THEN IF other_variant # 0 THEN Other(other_variant, discr) ELSE None
    ELSE IF discr = Eval(discriminants[k]) THEN Unit(unit_variants[k])
    ELSE from_discriminant_arms(discr, k + 1)

from_discriminant(discr) == from_discriminant_arms(discr, 1)

from_discriminant_type == IF other_variant # 0 THEN "Self" ELSE "Option<Self>"

\* Variation of values: the catch-all (payload 0) is listed after the unit
\* variants.
values_with_other ==
    [k \in 1..Len(unit_variants) |-> [tag |-> "unit", pos |-> unit_variants[k], val |-> 0]]
    \o (IF other_variant # 0
        THEN <<[tag |-> "other", pos |-> other_variant, val |-> 0]>>
        ELSE <<>>)

\* pub fn values() -> impl Iterator<Item = Self>: the vec![..] of unit variants.
values == [k \in 1..Len(unit_variants) |-> Unit(unit_variants[k])]

\* The emitted impl type-checks: the catch-all's payload is returned as
\* #discriminant_type and built from it, and every discriminant expression
\* is evaluated in that type without overflow.
compiles ==
    /\ pc = "impl"
    /\ other_variant # 0 => ast.variants[other_variant].ty = discriminant_type
    /\ \A k \in 1..Len(discriminants) : Eval(discriminants[k]) <= MaxDiscr

\* The values of the underlying integer type.
DiscrValues == 0..MaxDiscr

\* The instances of the enum that exist.
Instances ==
    {Unit(unit_variants[k]) : k \in 1..Len(unit_variants)}
    \cup (IF other_variant # 0 THEN {Other(other_variant, x) : x \in DiscrValues} ELSE {})

(***************************************************************************)
(* The state machine.                                                      *)
(***************************************************************************)
NoCall == [op |-> "none", n |-> 0, self |-> None, ret |-> None, out |-> 0, ty |-> "-"]

IterIds == {"first", "second"}
NoIter == [live |-> FALSE, got |-> <<>>, rest |-> <<>>]

Init ==
    /\ ast \in [repr : Reprs, variants : SeqsUpTo(Variants, MaxVariants)]
    /\ pc = "input"
    /\ discriminant_type = "-"
    /\ unit_variants = <<>>
    /\ other_variant = 0
    /\ error = NoError
    /\ discriminants = <<>>
    /\ call = NoCall
    /\ iters = [it \in IterIds |-> NoIter]

\* pub fn unit_enum_derive(input): classify, then emit the impl or the error.
unit_enum_derive ==
    /\ pc = "input"
    /\ LET r == validate_and_process(ast)
       IN /\ error' = r.error
          /\ discriminant_type' = r.discriminant_type
          /\ unit_variants' = r.unit_variants
          /\ other_variant' = r.other_variant
          /\ IF r.error # NoError
             THEN /\ pc' = "error"
                  /\ discriminants' = <<>>
             ELSE /\ pc' = "impl"
                  /\ discriminants' = impl_unit_enum(ast, r.unit_variants)
    /\ UNCHANGED <<ast, call, iters>>

macro_state == <<ast, pc, discriminant_type, unit_variants, other_variant, error,
                 discriminants>>

CallLen ==
    /\ compiles
    /\ call' = [NoCall EXCEPT !.op = "len", !.out = len, !.ty = "usize"]
    /\ UNCHANGED <<macro_state, iters>>

CallOrdinal ==
    /\ compiles
    /\ \E self \in Instances :
           call' = [NoCall EXCEPT !.op = "ordinal", !.self = self,
                                  !.out = ordinal(self), !.ty = "usize"]
    /\ UNCHANGED <<macro_state, iters>>

CallFromOrdinal ==
    /\ compiles
    /\ \E ord \in 0..(MaxVariants + 1) :
           call' = [NoCall EXCEPT !.op = "from_ordinal", !.n = ord,
                                  !.ret = from_ordinal(ord), !.ty = "Option<Self>"]
    /\ UNCHANGED <<macro_state, iters>>

CallDiscriminant ==
    /\ compiles
    /\ \E self \in Instances :
           call' = [NoCall EXCEPT !.op = "discriminant", !.self = self,
                                  !.out = discriminant(self), !.ty = discriminant_type]
    /\ UNCHANGED <<macro_state, iters>>

CallFromDiscriminant ==
    /\ compiles
    /\ \E discr \in DiscrValues :
           call' = [NoCall EXCEPT !.op = "from_discriminant", !.n = discr,
                                  !.ret = from_discriminant(discr),
                                  !.ty = from_discriminant_type]
    /\ UNCHANGED <<macro_state, iters>>

\* let it = Enum::values();
CallValues ==
    /\ compiles
    /\ \E it \in IterIds :
           iters' = [iters EXCEPT ![it] = [live |-> TRUE, got |-> <<>>, rest |-> values]]
    /\ UNCHANGED <<macro_state, call>>

\* it.next() on a live iterator that is not exhausted.
IterNext ==
    /\ compiles
    /\ \E it \in IterIds :
           /\ iters[it].live
           /\ iters[it].rest # <<>>
           /\ iters' = [iters EXCEPT ![it].got = Append(@, Head(iters[it].rest)),
                                     ![it].rest = Tail(@)]
    /\ UNCHANGED <<macro_state, call>>

Next ==
    \/ unit_enum_derive
    \/ CallLen
    \/ CallOrdinal
    \/ CallFromOrdinal
    \/ CallDiscriminant
    \/ CallFromDiscriminant

Spec == Init /\ [][Next]_vars

NextValues ==
    \/ unit_enum_derive
    \/ CallValues
    \/ IterNext

SpecValues == Init /\ [][NextValues]_vars

(***************************************************************************)
(* Properties.  The declaration-side notions used to state them are read   *)
(* off the declaration `ast` alone, not off the macro's results.           *)
(***************************************************************************)
Positions == 1..Len(ast.variants)

\* Positions of the unit entries of the declaration.
UnitPositions == {p \in Positions : ast.variants[p].fields = "unit"}

\* Number of unit entries declared before position p.
UnitsBefore(p) == Cardinality({q \in UnitPositions : q < p})

\* The unit entries as instances, in declaration order.
DeclaredUnits ==
    [i \in 1..Cardinality(UnitPositions) |->
        Unit(CHOOSE p \in UnitPositions : UnitsBefore(p) = i - 1)]

\* Entry p is tagged as catch-all and has the one unnamed payload field.
IsCatchAll(p) ==
    ast.variants[p].fields = "unnamed1" /\ ast.variants[p].attr = "other"

\* Resolved discriminant of the k-th unit variant, as the emitted code has it.
Resolved(k) == Eval(discriminants[k])

\* C1: every unit variant with an explicit discriminant resolves to that
\* value, one without resolves to the previous variant's resolved value plus
\* one, and a first variant without one resolves to 0; one discriminant per
\* unit variant.
C1_DiscriminantSequencing ==
    pc = "impl" =>
        /\ Len(discriminants) = Len(unit_variants)
        /\ \A k \in 1..Len(unit_variants) :
               LET v == ast.variants[unit_variants[k]]
               IN Resolved(k) = IF v.discriminant # <<>> THEN Eval(v.discriminant)
                                ELSE IF k = 1 THEN 0
                                ELSE Resolved(k - 1) + 1

\* C2: a declared catch-all makes classification fail unless the enum has an
\* explicit repr that equals the catch-all's payload type.
C2_CatchAllNeedsMatchingRepr ==
    \A p \in Positions :
        (/\ pc # "input"
         /\ IsCatchAll(p)
         /\ ~(ast.repr \in Types /\ ast.repr = ast.variants[p].ty))
        => pc = "error"

\* C3: from_discriminant(discriminant(v)) is the earliest-declared unit
\* variant whose discriminant equals discriminant(v); hence v itself when
\* v's discriminant is unique.
C3_RoundTripFirstMatch ==
    (compiles /\ call.op = "from_discriminant") =>
        LET same == {p \in UnitPositions : discriminant(Unit(p)) = call.n}
        IN same # {} =>
               /\ call.ret.tag = "unit"
               /\ call.ret.pos \in same
               /\ \A p \in same : call.ret.pos <= p

C3_Witness ==
    /\ compiles
    /\ call.op = "from_discriminant"
    /\ \E p, q \in UnitPositions :
           /\ p < q
           /\ discriminant(Unit(p)) = call.n
           /\ discriminant(Unit(q)) = call.n
           /\ call.ret = Unit(p)

\* C4: with a catch-all, from_discriminant(d) always is an instance: the
\* matching unit variant if some unit variant resolves to d, else the
\* catch-all carrying exactly d; without a catch-all it is an Option that is
\* None exactly when no unit variant resolves to d.
C4_FromDiscriminantShape ==
    (compiles /\ call.op = "from_discriminant") =>
        LET matched == \E k \in 1..Len(unit_variants) : Resolved(k) = call.n
        IN IF \E p \in Positions : IsCatchAll(p)
           THEN /\ call.ty = "Self"
                /\ call.ret # None
                /\ matched => call.ret.tag = "unit" /\ discriminant(call.ret) = call.n
                /\ ~matched =>
                       /\ call.ret.tag = "other"
                       /\ IsCatchAll(call.ret.pos)
                       /\ call.ret.val = call.n
           ELSE /\ call.ty = "Option<Self>"
                /\ call.ret = None <=> ~matched
                /\ call.ret.tag # "other"

C4_Witness ==
    /\ compiles
    /\ call.op = "from_discriminant"
    /\ Len(unit_variants) = 2
    /\ call.ret.tag = "other"
    /\ call.ret.val = call.n
    /\ call.n > Resolved(2)

\* C5: from_ordinal(i) is the unit variant of ordinal i for i in [0, len()),
\* and nothing outside that range, from_ordinal(len()) included: the
\* catch-all is never produced.
C5_FromOrdinal ==
    (compiles /\ call.op = "from_ordinal") =>
        IF call.n < len
        THEN /\ call.ret = DeclaredUnits[call.n + 1]
             /\ ordinal(call.ret) = call.n
        ELSE call.ret = None

C5_Witness ==
    /\ compiles
    /\ call.op = "from_ordinal"
    /\ \E p \in Positions : IsCatchAll(p)
    /\ len > 0
    /\ call.n = len
    /\ call.ret = None

\* The entries the classifier rejects, as C6 lists them.
Offending(p) ==
    LET v == ast.variants[p]
    IN \/ IsCatchAll(p) /\ \E q \in 1..(p - 1) : IsCatchAll(q)
       \/ v.fields = "unnamed1" /\ v.attr # "other"
       \/ v.fields \notin {"unit", "unnamed1"}
       \/ v.fields = "unit" /\ v.attr # "none"

\* Every offence is an extra catch-all.
OnlyExtraCatchAlls == \A p \in Positions : Offending(p) => IsCatchAll(p)

\* The second catch-all of the declaration.
IsSecondCatchAll(p) ==
    IsCatchAll(p) /\ Cardinality({q \in 1..(p - 1) : IsCatchAll(q)}) = 1

\* No operation set is produced.
NoOperationSet ==
    /\ pc = "error"
    /\ unit_variants = <<>>
    /\ other_variant = 0
    /\ discriminants = <<>>
    /\ call = NoCall

ErrorOnOffendingVariant ==
    /\ error.at = "variant"
    /\ error.pos \in Positions
    /\ Offending(error.pos)
    /\ OnlyExtraCatchAlls => IsSecondCatchAll(error.pos)

\* C6 as stated: a declaration with an offending entry fails classification,
\* no operation set is produced, and the error is attached to the offending
\* variant (for two catch-alls, the second).
C6_Original ==
    (pc # "input" /\ \E p \in Positions : Offending(p)) =>
        NoOperationSet /\ ErrorOnOffendingVariant

\* C6, amended: as stated, except that when the #[repr] attribute does not
\* parse as a type the error is attached to that attribute, not to a variant.
C6_RejectsOffendingShapes ==
    (pc # "input" /\ \E p \in Positions : Offending(p)) =>
        /\ NoOperationSet
        /\ IF ast.repr = "invalid" THEN error.at = "attr"
           ELSE ErrorOnOffendingVariant

C6_Witness ==
    /\ pc = "error"
    /\ ast.repr # "invalid"
    /\ Len(ast.variants) = 3
    /\ ast.variants[1].fields = "unit"
    /\ IsCatchAll(2)
    /\ IsCatchAll(3)
    /\ error.at = "variant"
    /\ error.pos = 3

\* C7: a values() iterator yields exactly the unit variants in declaration
\* order, never the catch-all, len() of them, len() being the number of unit
\* entries; two iterators are independent and equal element by element.
C7_Values ==
    compiles =>
        /\ len = Cardinality(UnitPositions)
        /\ \A it \in IterIds :
               iters[it].live =>
                   /\ iters[it].got \o iters[it].rest = DeclaredUnits
                   /\ Len(iters[it].got \o iters[it].rest) = len
        /\ \A a, b \in IterIds :
               (iters[a].live /\ iters[b].live) =>
                   iters[a].got \o iters[a].rest = iters[b].got \o iters[b].rest

C7_Witness ==
    /\ compiles
    /\ iters["first"].live
    /\ iters["second"].live
    /\ Len(ast.variants) = 3
    /\ IsCatchAll(2)
    /\ iters["first"].got = <<Unit(1), Unit(3)>>
    /\ iters["second"].got = <<Unit(1)>>
    /\ iters["second"].rest = <<Unit(3)>>

\* C8: the ordinal of a unit variant is its zero-based position among the
\* unit entries only; the ordinal of a catch-all instance is len() whatever
\* its payload; every ordinal is in [0, len()] and only catch-all instances
\* have ordinal len().
C8_Ordinal ==
    (compiles /\ call.op = "ordinal") =>
        /\ call.self.tag = "unit" => call.out = UnitsBefore(call.self.pos)
        /\ call.self.tag = "other" => call.out = Cardinality(UnitPositions)
        /\ call.out \in 0..len
        /\ call.out = len => call.self.tag = "other"

C8_Witness ==
    /\ compiles
    /\ call.op = "ordinal"
    /\ call.self.tag = "unit"
    /\ \E p \in Positions : IsCatchAll(p) /\ p < call.self.pos
    /\ call.out = call.self.pos - 2

\* C9: a unit variant without explicit discriminant that follows one whose
\* explicit discriminant is a compound expression resolves to the value of
\* that expression plus one.
C9_IncrementAfterCompound ==
    pc = "impl" =>
        \A k \in 2..Len(unit_variants) :
            LET v == ast.variants[unit_variants[k]]
                prev == ast.variants[unit_variants[k - 1]]
            IN (v.discriminant = <<>> /\ Len(prev.discriminant) > 1)
               => Resolved(k) = Eval(prev.discriminant) + 1

\* C10: with a catch-all, discriminant(from_discriminant(d)) = d for every
\* value d of the underlying type.
C10_DiscriminantOfFromDiscriminant ==
    (compiles /\ other_variant # 0 /\ call.op = "from_discriminant") =>
        discriminant(call.ret) = call.n

C10_Witness ==
    /\ compiles
    /\ other_variant # 0
    /\ call.op = "from_discriminant"
    /\ call.ret.tag = "unit"
    /\ \E k \in 1..Len(unit_variants) :
           Unit(unit_variants[k]) # call.ret /\ Resolved(k) = call.n

====
